---- MODULE Spec2Model ----
(***************************************************************************)
(* Model of the barber-shop booking engine (src/booking_manager.py) over   *)
(* the relational store declared in src/models.py.                         *)
(*                                                                         *)
(* Tables are sequences of rows; a row's id is its index (autoincrement    *)
(* primary key).  A time of day is a number of minutes since midnight, a   *)
(* date is a proleptic ordinal (ordinal 1 is a Monday).  Text that the     *)
(* code parses ("HH:MM", "Mon,Tue") is a sequence of pieces and is parsed  *)
(* the way strptime / str.split parse it.  schedules is the table of       *)
(* EmployeeSchedule rows (per-date working hours of an employee).          *)
(***************************************************************************)
EXTENDS Integers, Sequences, FiniteSets, TLC

VARIABLES employees, services, schedules, customers, appointments, ret, pending

vars == <<employees, services, schedules, customers, appointments, ret, pending>>

(***************************************************************************)
(* Bounds of the model.                                                    *)
(***************************************************************************)
MaxAppointments == 2

(***************************************************************************)
(* Program constants.                                                      *)
(***************************************************************************)
SlotMinutes == 30
DefaultDuration == 30
MaxDaysAhead == 30
MinutesPerDay == 1440
Today == 1
NoneId == 0

NoError == "ok"
EmployeeNotFound == "Employee not found"
SlotNotAvailable == "Time slot not available"
InvalidTimeFormat == "time data does not match format '%H:%M'"

(***************************************************************************)
(* datetime.strptime(text, "%H:%M").time(): one or two digits of hour      *)
(* (0..23), a colon, one or two digits of minute (0..59), nothing else.    *)
(***************************************************************************)
Digits == <<"0", "1", "2", "3", "4", "5", "6", "7", "8", "9">>

IsDigit(c) == \E i \in 1..10 : Digits[i] = c

DigitVal(c) == (CHOOSE i \in 1..10 : Digits[i] = c) - 1

Num(s) == IF Len(s) = 1 THEN DigitVal(s[1])
          ELSE 10 * DigitVal(s[1]) + DigitVal(s[2])

WellFormedTime(s, p) ==
    /\ p < Len(s)
    /\ s[p] = ":"
    /\ Len(s) - p \in {1, 2}
    /\ \A i \in 1..Len(s) : i # p => IsDigit(s[i])
    /\ Num(SubSeq(s, 1, p - 1)) <= 23
    /\ Num(SubSeq(s, p + 1, Len(s))) <= 59

strptime(s) ==
    IF \E p \in {2, 3} : WellFormedTime(s, p)
    THEN LET p == CHOOSE q \in {2, 3} : WellFormedTime(s, q)
         IN  [ok |-> TRUE,
              minutes |-> 60 * Num(SubSeq(s, 1, p - 1))
                          + Num(SubSeq(s, p + 1, Len(s)))]
    ELSE [ok |-> FALSE, minutes |-> 0]

(***************************************************************************)
(* time.strftime("%H:%M"): two digits of hour, a colon, two of minute.     *)
(***************************************************************************)
strftime_HM(t) ==
    <<Digits[((t \div 60) \div 10) + 1], Digits[((t \div 60) % 10) + 1], ":",
      Digits[((t % 60) \div 10) + 1], Digits[((t % 60) % 10) + 1]>>

(***************************************************************************)
(* date.strftime("%a") and str.split(",").                                 *)
(***************************************************************************)
DayNames == <<"Mon", "Tue", "Wed", "Thu", "Fri", "Sat", "Sun">>

strftime_a(d) == DayNames[((d - 1) % 7) + 1]

RECURSIVE split(_)
split(s) ==
    IF \A i \in 1..Len(s) : s[i] # ","
    THEN <<s>>
    ELSE LET i == CHOOSE k \in 1..Len(s) :
                      s[k] = "," /\ \A j \in 1..(k - 1) : s[j] # ","
         IN  <<SubSeq(s, 1, i - 1)>> \o split(SubSeq(s, i + 1, Len(s)))

WorksOn(employee, d) ==
    \E k \in 1..Len(split(employee.working_days)) :
        split(employee.working_days)[k] = <<strftime_a(d)>>

(***************************************************************************)
(* (datetime.combine(day, t) + timedelta(minutes=n)).time(): the date part *)
(* is dropped, so the result is a time of day.                             *)
(***************************************************************************)
AddMinutes(t, n) == (t + n) % MinutesPerDay

(***************************************************************************)
(* Store lookups: session.query(X).get(id) and the filtered queries.       *)
(***************************************************************************)
HasEmployee(employee_id) == employee_id \in 1..Len(employees)

HasService(service_id) == service_id \in 1..Len(services)

HasAppointment(appointment_id) == appointment_id \in 1..Len(appointments)

CustomerByPhone(table, phone) ==
    IF \E i \in 1..Len(table) : table[i].phone = phone
    THEN CHOOSE i \in 1..Len(table) :
             table[i].phone = phone
             /\ \A j \in 1..(i - 1) : table[j].phone # phone
    ELSE NoneId

AppointmentsOfAnyStatus(employee_id, d) ==
    {i \in 1..Len(appointments) :
        /\ appointments[i].employee_id = employee_id
        /\ appointments[i].appointment_date = d}

ScheduledAppointments(employee_id, d) ==
    {i \in 1..Len(appointments) :
        /\ appointments[i].employee_id = employee_id
        /\ appointments[i].appointment_date = d
        /\ appointments[i].status = "scheduled"}

ActiveAppointments(employee_id, d) ==
    {i \in 1..Len(appointments) :
        /\ appointments[i].employee_id = employee_id
        /\ appointments[i].appointment_date = d
        /\ appointments[i].status # "cancelled"}

(***************************************************************************)
(* get_employee_availability                                               *)
(***************************************************************************)
SlotOverlapsClosed(slot_start, slot_end, appt) ==
    ~(slot_end < appt.start_time \/ slot_start > appt.end_time)

SlotOverlaps(slot_start, slot_end, appt) ==
    ~(slot_end <= appt.start_time \/ slot_start >= appt.end_time)

SlotStartIsFree(current_time, employee_id, d) ==
    \A i \in ActiveAppointments(employee_id, d) :
        ~(appointments[i].start_time <= current_time
          /\ current_time < appointments[i].end_time)

SlotIsAvailable(current_time, employee_id, d) ==
    \A i \in ActiveAppointments(employee_id, d) :
        ~SlotOverlaps(current_time, current_time + SlotMinutes, appointments[i])

RECURSIVE TimeSlotsWhileBeforeEnd(_, _, _, _)
TimeSlotsWhileBeforeEnd(current_time, end_time, employee_id, d) ==
    IF current_time < end_time
    THEN (IF SlotIsAvailable(current_time, employee_id, d)
          THEN <<[start_time |-> current_time,
                  end_time |-> current_time + SlotMinutes,
                  available |-> TRUE]>>
          ELSE <<>>)
         \o TimeSlotsWhileBeforeEnd(current_time + SlotMinutes, end_time,
                                    employee_id, d)
    ELSE <<>>

RECURSIVE TimeSlots(_, _, _, _)
TimeSlots(current_time, end_time, employee_id, d) ==
    IF current_time + SlotMinutes <= end_time
    THEN (IF SlotIsAvailable(current_time, employee_id, d)
          THEN <<[start_time |-> current_time,
                  end_time |-> current_time + SlotMinutes,
                  available |-> TRUE]>>
          ELSE <<>>)
         \o TimeSlots(current_time + SlotMinutes, end_time, employee_id, d)
    ELSE <<>>

AvailabilityIgnoringWeekday(employee_id, d) ==
    IF ~HasEmployee(employee_id) THEN <<>>
    ELSE TimeSlots(employees[employee_id].start_time,
                   employees[employee_id].end_time, employee_id, d)

get_employee_availability(employee_id, d) ==
    IF ~HasEmployee(employee_id) THEN <<>>
    ELSE IF ~WorksOn(employees[employee_id], d) THEN <<>>
    ELSE TimeSlots(employees[employee_id].start_time,
                   employees[employee_id].end_time, employee_id, d)

(***************************************************************************)
(* get_next_available_slot                                                 *)
(***************************************************************************)
NoneResult == [found |-> FALSE]

ShopEmployees(shop_id) ==
    SelectSeq([i \in 1..Len(employees) |-> i],
              LAMBDA i : employees[i].shop_id = shop_id)

ActiveEmployees(shop_id) ==
    SelectSeq([i \in 1..Len(employees) |-> i],
              LAMBDA i : employees[i].shop_id = shop_id /\ employees[i].is_active)

RECURSIVE FirstWithSlots(_, _)
FirstWithSlots(emps, check_date) ==
    IF emps = <<>> THEN NoneId
    ELSE IF get_employee_availability(Head(emps), check_date) # <<>>
         THEN Head(emps)
         ELSE FirstWithSlots(Tail(emps), check_date)

RECURSIVE ScanDays(_, _, _, _)
ScanDays(days_ahead, horizon, employee_id, shop_id) ==
    IF days_ahead >= horizon THEN NoneResult
    ELSE LET check_date == Today + days_ahead
         IN  IF employee_id # NoneId
             THEN LET slots == get_employee_availability(employee_id, check_date)
                  IN  IF slots # <<>>
                      THEN [found |-> TRUE,
                            employee_id |-> employee_id,
                            date |-> check_date,
                            time |-> slots[1].start_time]
                      ELSE ScanDays(days_ahead + 1, horizon, employee_id, shop_id)
             ELSE IF shop_id # NoneId
             THEN LET emp == FirstWithSlots(ActiveEmployees(shop_id), check_date)
                  IN  IF emp # NoneId
                      THEN [found |-> TRUE,
                            employee_id |-> emp,
                            employee_name |-> employees[emp].name,
                            date |-> check_date,
                            time |-> get_employee_availability(emp, check_date)[1].start_time]
                      ELSE ScanDays(days_ahead + 1, horizon, employee_id, shop_id)
             ELSE ScanDays(days_ahead + 1, horizon, employee_id, shop_id)

NextSlotTodayOnly(employee_id, shop_id) ==
    ScanDays(0, 1, employee_id, shop_id)

NextSlotFromTomorrow(employee_id, shop_id) ==
    ScanDays(1, MaxDaysAhead, employee_id, shop_id)

get_next_available_slot(employee_id, shop_id) ==
    ScanDays(0, MaxDaysAhead, employee_id, shop_id)

(***************************************************************************)
(* register_customer and book_appointment                                  *)
(***************************************************************************)
InsertCustomer(name, phone) ==
    [table |-> Append(customers, [name |-> name, phone |-> phone]),
     id |-> Len(customers) + 1]

Upsert(name, phone) ==
    IF CustomerByPhone(customers, phone) # NoneId
    THEN [table |-> customers, id |-> CustomerByPhone(customers, phone)]
    ELSE [table |-> Append(customers, [name |-> name, phone |-> phone]),
          id |-> Len(customers) + 1]

Duration(service_id) ==
    IF service_id # NoneId /\ HasService(service_id)
    THEN services[service_id].duration_minutes
    ELSE DefaultDuration

ConflictsStartOnly(appt, start_time, end_time) ==
    appt.start_time <= start_time /\ appt.end_time > start_time

ConflictsClosed(appt, start_time, end_time) ==
    \/ (appt.start_time <= start_time /\ appt.end_time >= start_time)
    \/ (appt.start_time <= end_time /\ appt.end_time >= end_time)

ConflictsEndOnly(appt, start_time, end_time) ==
    appt.start_time < end_time /\ appt.end_time >= end_time

Conflicts(appt, start_time, end_time) ==
    \/ (appt.start_time <= start_time /\ appt.end_time > start_time)
    \/ (appt.start_time < end_time /\ appt.end_time >= end_time)

HasConflict(employee_id, d, start_time, end_time) ==
    \E i \in ActiveAppointments(employee_id, d) :
        Conflicts(appointments[i], start_time, end_time)

\* What book_appointment decides after the customer upsert: the error it
\* raises, or the row it is about to insert.
Prepare(employee_id, customer_id, d, start_time, service_id) ==
    LET parsed == strptime(start_time)
        start_time_obj == parsed.minutes
        end_time_obj == AddMinutes(start_time_obj, Duration(service_id))
    IN  IF ~HasEmployee(employee_id)
        THEN [error |-> EmployeeNotFound]
        ELSE IF ~parsed.ok
        THEN [error |-> InvalidTimeFormat]
        ELSE IF HasConflict(employee_id, d, start_time_obj, end_time_obj)
        THEN [error |-> SlotNotAvailable]
        ELSE [error |-> NoError,
              row |-> [shop_id |-> employees[employee_id].shop_id,
                       employee_id |-> employee_id,
                       customer_id |-> customer_id,
                       service_id |-> service_id,
                       appointment_date |-> d,
                       start_time |-> start_time_obj,
                       end_time |-> end_time_obj,
                       status |-> "scheduled"]]

BookArgs(employee_id, phone, name, d, start_time, service_id) ==
    [employee_id |-> employee_id, customer_phone |-> phone, customer_name |-> name,
     appointment_date |-> d, start_time |-> start_time, service_id |-> service_id]

register_customer(name, phone) ==
    /\ customers' = Upsert(name, phone).table
    /\ ret' = [op |-> "register_customer",
               args |-> [name |-> name, phone |-> phone],
               error |-> NoError,
               value |-> Upsert(name, phone).id]
    /\ UNCHANGED <<employees, services, schedules, appointments, pending>>

book_appointment(employee_id, phone, name, d, start_time, service_id) ==
    LET customer == Upsert(name, phone)
        p == Prepare(employee_id, customer.id, d, start_time, service_id)
    IN  /\ customers' = customer.table
        /\ IF p.error # NoError
           THEN /\ appointments' = appointments
                /\ ret' = [op |-> "book_appointment",
                           args |-> BookArgs(employee_id, phone, name, d,
                                             start_time, service_id),
                           error |-> p.error,
                           value |-> NoneId]
           ELSE /\ Len(appointments) < MaxAppointments
                /\ appointments' = Append(appointments, p.row)
                /\ ret' = [op |-> "book_appointment",
                           args |-> BookArgs(employee_id, phone, name, d,
                                             start_time, service_id),
                           error |-> NoError,
                           value |-> Len(appointments) + 1]
        /\ UNCHANGED <<employees, services, schedules, pending>>

(***************************************************************************)
(* cancel_appointment                                                      *)
(***************************************************************************)
CancelUpTo(appointment_id) ==
    /\ appointments' = [i \in 1..Len(appointments) |->
                           IF i <= appointment_id
                           THEN [appointments[i] EXCEPT !.status = "cancelled"]
                           ELSE appointments[i]]
    /\ ret' = [op |-> "cancel_appointment",
               args |-> [appointment_id |-> appointment_id],
               error |-> NoError,
               value |-> HasAppointment(appointment_id)]
    /\ UNCHANGED <<employees, services, schedules, customers, pending>>

cancel_appointment(appointment_id) ==
    /\ IF HasAppointment(appointment_id)
       THEN appointments' = [appointments EXCEPT ![appointment_id].status = "cancelled"]
       ELSE appointments' = appointments
    /\ ret' = [op |-> "cancel_appointment",
               args |-> [appointment_id |-> appointment_id],
               error |-> NoError,
               value |-> HasAppointment(appointment_id)]
    /\ UNCHANGED <<employees, services, schedules, customers, pending>>

(***************************************************************************)
(* The two queries as calls: the store is left alone, the result returned. *)
(***************************************************************************)
GetAvailability(employee_id, d) ==
    /\ ret' = [op |-> "get_employee_availability",
               args |-> [employee_id |-> employee_id, date |-> d],
               error |-> NoError,
               value |-> get_employee_availability(employee_id, d)]
    /\ UNCHANGED <<employees, services, schedules, customers, appointments, pending>>

GetNextAvailableSlot(employee_id, shop_id) ==
    /\ ret' = [op |-> "get_next_available_slot",
               args |-> [employee_id |-> employee_id, shop_id |-> shop_id],
               error |-> NoError,
               value |-> get_next_available_slot(employee_id, shop_id)]
    /\ UNCHANGED <<employees, services, schedules, customers, appointments, pending>>

(***************************************************************************)
(* Two requests whose conflict query and insert interleave: BookRead is    *)
(* book_appointment up to and including the conflict query, BookWrite is   *)
(* its session.add + session.commit.                                       *)
(***************************************************************************)
Procs == {1, 2}

Idle == [pc |-> "idle"]

BookRead(proc, employee_id, phone, name, d, start_time, service_id) ==
    LET customer == Upsert(name, phone)
        p == Prepare(employee_id, customer.id, d, start_time, service_id)
    IN  /\ pending[proc] = Idle
        /\ customers' = customer.table
        /\ IF p.error # NoError
           THEN /\ pending' = pending
                /\ ret' = [op |-> "book_appointment",
                           args |-> BookArgs(employee_id, phone, name, d,
                                             start_time, service_id),
                           error |-> p.error,
                           value |-> NoneId]
           ELSE /\ pending' = [pending EXCEPT ![proc] =
                                  [pc |-> "insert", row |-> p.row,
                                   args |-> BookArgs(employee_id, phone, name, d,
                                                     start_time, service_id)]]
                /\ ret' = ret
        /\ UNCHANGED <<employees, services, schedules, appointments>>

BookWrite(proc) ==
    /\ pending[proc] # Idle
    /\ Len(appointments) < MaxAppointments
    /\ appointments' = Append(appointments, pending[proc].row)
    /\ pending' = [pending EXCEPT ![proc] = Idle]
    /\ ret' = [op |-> "book_appointment",
               args |-> pending[proc].args,
               error |-> NoError,
               value |-> Len(appointments) + 1]
    /\ UNCHANGED <<employees, services, schedules, customers>>

(***************************************************************************)
(* Two register_customer calls whose existence check and insert            *)
(* interleave.  RegisterCheck is the query by phone, RegisterInsert is     *)
(* session.add + session.commit: the customers table has a unique          *)
(* constraint on phone, so the commit of a second row with a phone that is *)
(* already stored raises IntegrityError and adds nothing.                  *)
(***************************************************************************)
IntegrityError == "UNIQUE constraint failed: customers.phone"

CommitCustomerUnchecked(name, phone) ==
    [ok |-> TRUE,
     table |-> Append(customers, [name |-> name, phone |-> phone])]

CommitCustomer(name, phone) ==
    IF \E i \in 1..Len(customers) : customers[i].phone = phone
    THEN [ok |-> FALSE, table |-> customers]
    ELSE [ok |-> TRUE,
          table |-> Append(customers, [name |-> name, phone |-> phone])]

RegisterCheck(proc, name, phone) ==
    /\ pending[proc] = Idle
    /\ IF CustomerByPhone(customers, phone) # NoneId
       THEN /\ pending' = pending
            /\ ret' = [op |-> "register_customer",
                       args |-> [name |-> name, phone |-> phone],
                       error |-> NoError,
                       value |-> CustomerByPhone(customers, phone)]
       ELSE /\ pending' = [pending EXCEPT ![proc] =
                              [pc |-> "add_customer", name |-> name, phone |-> phone]]
            /\ ret' = ret
    /\ UNCHANGED <<employees, services, schedules, customers, appointments>>

RegisterInsert(proc) ==
    /\ pending[proc] # Idle
    /\ pending[proc].pc = "add_customer"
    /\ LET done == CommitCustomer(pending[proc].name, pending[proc].phone)
       IN  /\ customers' = done.table
           /\ ret' = [op |-> "register_customer",
                      args |-> [name |-> pending[proc].name,
                                phone |-> pending[proc].phone],
                      error |-> IF done.ok THEN NoError ELSE IntegrityError,
                      value |-> IF done.ok THEN Len(customers) + 1 ELSE NoneId]
    /\ pending' = [pending EXCEPT ![proc] = Idle]
    /\ UNCHANGED <<employees, services, schedules, appointments>>

(***************************************************************************)
(* The store a BookingManager is constructed over: staff and services as   *)
(* add_employee / add_service leave them, no customer, no appointment.     *)
(***************************************************************************)
Text(h1, h2, m1, m2) == <<h1, h2, ":", m1, m2>>

add_employee(shop_id, name, working_days, start_time, end_time, is_active) ==
    [shop_id |-> shop_id,
     name |-> name,
     working_days |-> working_days,
     start_time |-> strptime(start_time).minutes,
     end_time |-> strptime(end_time).minutes,
     is_active |-> is_active]

add_service(shop_id, name, duration_minutes) ==
    [shop_id |-> shop_id, name |-> name, duration_minutes |-> duration_minutes]

Mike == add_employee(1, "Mike Johnson", <<"Mon", ",", "Wed">>,
                     Text("0", "9", "0", "0"), Text("1", "2", "1", "0"), TRUE)

Sarah == add_employee(1, "Sarah Williams", <<"Mon", ",", "Tue">>,
                      Text("1", "0", "0", "0"), Text("1", "0", "3", "0"), FALSE)

Carlos == add_employee(1, "Carlos Martinez", <<>>,
                       Text("0", "9", "0", "0"), Text("1", "1", "1", "0"), TRUE)

Premium == add_service(1, "Premium Package", 75)

OneBarber == [employees |-> <<Mike>>, services |-> <<Premium>>, schedules |-> <<>>]

TwoBarbers == [employees |-> <<Sarah, Carlos>>, services |-> <<>>, schedules |-> <<>>]

(***************************************************************************)
(* A shop of three: two active barbers and one who has left, with per-date *)
(* schedule rows (an extra working day, a day off).                        *)
(***************************************************************************)
Lena == add_employee(1, "Lena Ortiz", <<"Tue">>,
                     Text("1", "0", "0", "0"), Text("1", "1", "0", "0"), TRUE)

Omar == add_employee(1, "Omar Reyes", <<"Mon", ",", "Tue">>,
                     Text("1", "0", "0", "0"), Text("1", "0", "3", "0"), TRUE)

Nina == add_employee(1, "Nina Patel", <<"Mon">>,
                     Text("0", "9", "0", "0"), Text("1", "0", "0", "0"), FALSE)

EmployeeSchedule(employee_id, d, start_time, end_time, is_available) ==
    [employee_id |-> employee_id,
     date |-> d,
     start_time |-> strptime(start_time).minutes,
     end_time |-> strptime(end_time).minutes,
     is_available |-> is_available]

ExtraDay == EmployeeSchedule(1, Today + 2, Text("1", "0", "0", "0"),
                             Text("1", "1", "0", "0"), TRUE)

DayOff == EmployeeSchedule(2, Today, Text("1", "0", "0", "0"),
                           Text("1", "0", "3", "0"), FALSE)

Crew == [employees |-> <<Lena, Omar, Nina>>, services |-> <<>>,
         schedules |-> <<ExtraDay, DayOff>>]

InitWith(rosters) ==
    /\ \E r \in rosters :
          /\ employees = r.employees
          /\ services = r.services
          /\ schedules = r.schedules
    /\ customers = <<>>
    /\ appointments = <<>>
    /\ ret = [op |-> "init", args |-> <<>>, error |-> NoError, value |-> NoneId]
    /\ pending = [p \in Procs |-> Idle]

(***************************************************************************)
(* Inputs of the calls.                                                    *)
(***************************************************************************)
EmployeeIds == {1, 2}

ServiceIds == {NoneId, 1}

Phones == {"555-2001"}

Names == {"Alex Thompson"}

AppointmentIds == 1..(MaxAppointments + 1)

T0900 == Text("0", "9", "0", "0")
T0945 == Text("0", "9", "4", "5")
T1000 == Text("1", "0", "0", "0")
T1015 == Text("1", "0", "1", "5")
T2345 == Text("2", "3", "4", "5")
TBad == <<"9", "a", "m">>

(***************************************************************************)
(* Spec: one barber, one day, requests of differing start and duration.    *)
(***************************************************************************)
Init == InitWith({OneBarber})

TimeTexts == {T0945, T1000, T1015, T2345, TBad}

Next ==
    \/ \E name \in Names, phone \in Phones : register_customer(name, phone)
    \/ \E phone \in Phones, name \in Names,
          start_time \in TimeTexts, service_id \in ServiceIds :
          book_appointment(1, phone, name, Today, start_time, service_id)
    \/ \E appointment_id \in AppointmentIds : cancel_appointment(appointment_id)
    \/ \E employee_id \in EmployeeIds : GetAvailability(employee_id, Today)
    \/ \E employee_id \in EmployeeIds : GetNextAvailableSlot(employee_id, NoneId)

Spec == Init /\ [][Next]_vars

(***************************************************************************)
(* SpecShop: the rosters of a shop over several days, one request shape.   *)
(***************************************************************************)
InitShop == InitWith({OneBarber, TwoBarbers, Crew})

BookDates == {Today, Today + 1}

QueryDates == {Today, Today + 1, Today + 2}

NextShop ==
    \/ \E employee_id \in EmployeeIds, phone \in Phones, name \in Names,
          d \in BookDates :
          book_appointment(employee_id, phone, name, d, T1000, NoneId)
    \/ \E appointment_id \in AppointmentIds : cancel_appointment(appointment_id)
    \/ \E employee_id \in EmployeeIds, d \in QueryDates :
          GetAvailability(employee_id, d)
    \/ \E employee_id \in {NoneId} \cup EmployeeIds, shop_id \in {NoneId, 1} :
          GetNextAvailableSlot(employee_id, shop_id)

SpecShop == InitShop /\ [][NextShop]_vars

(***************************************************************************)
(* SpecConc: two requests whose read and write steps interleave.           *)
(***************************************************************************)
ConcTimeTexts == {T0945, T1000}

NextConc ==
    \/ \E proc \in Procs, employee_id \in EmployeeIds, phone \in Phones,
          name \in Names, d \in BookDates, start_time \in ConcTimeTexts :
          BookRead(proc, employee_id, phone, name, d, start_time, NoneId)
    \/ \E proc \in Procs : BookWrite(proc)
    \/ \E appointment_id \in AppointmentIds : cancel_appointment(appointment_id)

SpecConc == Init /\ [][NextConc]_vars

(***************************************************************************)
(* SpecCustomers: customers who call under two phone numbers and spell     *)
(* their name in two ways.                                                 *)
(***************************************************************************)
CustomerPhones == {"555-2001", "555-2002"}

CustomerNames == {"Alex Thompson", "ALEX THOMPSON"}

CustomerTimeTexts == {T1000, TBad}

NextCustomers ==
    \/ \E name \in CustomerNames, phone \in CustomerPhones :
          register_customer(name, phone)
    \/ \E phone \in CustomerPhones, name \in CustomerNames,
          start_time \in CustomerTimeTexts :
          book_appointment(1, phone, name, Today, start_time, NoneId)
    \/ \E appointment_id \in AppointmentIds : cancel_appointment(appointment_id)

SpecCustomers == Init /\ [][NextCustomers]_vars

(***************************************************************************)
(* SpecHistory: a manager constructed over a store that already holds a    *)
(* customer and a past appointment whose status was set outside of it.     *)
(***************************************************************************)
HistoryStatuses == {"completed", "cancelled", "no-show"}

Visit(status) ==
    [shop_id |-> 1,
     employee_id |-> 1,
     customer_id |-> 1,
     service_id |-> NoneId,
     appointment_date |-> Today,
     start_time |-> strptime(T1000).minutes,
     end_time |-> AddMinutes(strptime(T1000).minutes, DefaultDuration),
     status |-> status]

InitHistory ==
    /\ employees = OneBarber.employees
    /\ services = OneBarber.services
    /\ schedules = OneBarber.schedules
    /\ customers = <<[name |-> "Alex Thompson", phone |-> "555-2001"]>>
    /\ \E status \in HistoryStatuses : appointments = <<Visit(status)>>
    /\ ret = [op |-> "init", args |-> <<>>, error |-> NoError, value |-> NoneId]
    /\ pending = [p \in Procs |-> Idle]

HistoryTimeTexts == {T0900, T0945, T1000}

NextHistory ==
    \/ \E phone \in Phones, name \in Names, d \in BookDates,
          start_time \in HistoryTimeTexts :
          book_appointment(1, phone, name, d, start_time, NoneId)
    \/ \E appointment_id \in AppointmentIds : cancel_appointment(appointment_id)
    \/ \E d \in BookDates : GetAvailability(1, d)

SpecHistory == InitHistory /\ [][NextHistory]_vars

(***************************************************************************)
(* SpecRegister: register_customer calls of two requests interleave with   *)
(* each other and with whole book_appointment calls.                       *)
(***************************************************************************)
NextRegister ==
    \/ \E proc \in Procs, name \in CustomerNames, phone \in CustomerPhones :
          RegisterCheck(proc, name, phone)
    \/ \E proc \in Procs : RegisterInsert(proc)
    \/ \E phone \in CustomerPhones, name \in CustomerNames :
          book_appointment(1, phone, name, Today, T1000, NoneId)

SpecRegister == Init /\ [][NextRegister]_vars

(***************************************************************************)
(* SpecOffered: besides requests of any start and duration, a caller books *)
(* a slot it was offered: one of the list of get_employee_availability, or *)
(* the result of get_next_available_slot, sent back as "HH:MM" text.       *)
(***************************************************************************)
OfferedTimeTexts == {T0945, T2345}

NextOffered ==
    \/ \E phone \in Phones, name \in Names,
          start_time \in OfferedTimeTexts, service_id \in ServiceIds :
          book_appointment(1, phone, name, Today, start_time, service_id)
    \/ \E phone \in Phones, name \in Names :
          \E k \in 1..Len(get_employee_availability(1, Today)) :
              book_appointment(1, phone, name, Today,
                  strftime_HM(get_employee_availability(1, Today)[k].start_time),
                  NoneId)
    \/ \E phone \in Phones, name \in Names :
          /\ get_next_available_slot(1, NoneId).found
          /\ book_appointment(1, phone, name,
                  get_next_available_slot(1, NoneId).date,
                  strftime_HM(get_next_available_slot(1, NoneId).time),
                  NoneId)
    \/ \E appointment_id \in AppointmentIds : cancel_appointment(appointment_id)
    \/ GetAvailability(1, Today)

SpecOffered == Init /\ [][NextOffered]_vars

(***************************************************************************)
(* Vocabulary of the properties.                                           *)
(***************************************************************************)
Active(i) == appointments[i].status # "cancelled"

SameCalendar(i, j) ==
    /\ appointments[i].employee_id = appointments[j].employee_id
    /\ appointments[i].appointment_date = appointments[j].appointment_date

\* [s1, e1) and [s2, e2) share an instant.
HalfOpenOverlap(s1, e1, s2, e2) == s1 < e2 /\ s2 < e1

ValidTimes == {strptime(x).minutes : x \in {y \in TimeTexts : strptime(y).ok}}

Durations == {Duration(service_id) : service_id \in ServiceIds}

BookFailed == ret.op = "book_appointment" /\ ret.error # NoError

BookAccepted == ret.op = "book_appointment" /\ ret.error = NoError

\* C1: every two distinct non-cancelled appointments of one employee on one
\* date have non-overlapping half-open intervals [start_time, end_time).
NoDoubleBooking ==
    \A i, j \in 1..Len(appointments) :
        (i < j /\ Active(i) /\ Active(j) /\ SameCalendar(i, j))
        => ~HalfOpenOverlap(appointments[i].start_time, appointments[i].end_time,
                            appointments[j].start_time, appointments[j].end_time)

\* C2: two requests for the same employee, date and start time whose conflict
\* query and insert interleave are never both accepted.
NeverBothAccepted ==
    \A i, j \in 1..Len(appointments) :
        (i < j /\ Active(i) /\ Active(j) /\ SameCalendar(i, j))
        => appointments[i].start_time # appointments[j].start_time

\* C3: for every candidate interval and every non-cancelled appointment of the
\* employee and date, the conflict condition of book_appointment is true
\* exactly when the half-open overlap test of slot generation is true.
ConflictIsOverlap ==
    \A i \in 1..Len(appointments), s \in ValidTimes, n \in Durations :
        Active(i) =>
            (Conflicts(appointments[i], s, AddMinutes(s, n))
             <=> SlotOverlaps(s, AddMinutes(s, n), appointments[i]))

\* C4: a book_appointment that fails leaves the persisted state unchanged:
\* no customer record and no appointment is added.
FailedBookingChangesNothing ==
    [][BookFailed' => (customers' = customers /\ appointments' = appointments)]_vars

(***************************************************************************)
(* Slots of a working window, and the intervals as instants of one day:    *)
(* an end_time at or before its start_time is a time of the following day. *)
(***************************************************************************)
WindowSlots(employee_id) ==
    LET first == employees[employee_id].start_time
        last == employees[employee_id].end_time
    IN  IF last < first + SlotMinutes THEN {}
        ELSE {first + SlotMinutes * k :
                 k \in 0..(((last - first) \div SlotMinutes) - 1)}

Listed(t, slots) == \E k \in 1..Len(slots) : slots[k].start_time = t

EndInstant(appt) ==
    IF appt.end_time <= appt.start_time
    THEN appt.end_time + MinutesPerDay
    ELSE appt.end_time

Others(employee_id, d, except) == ActiveAppointments(employee_id, d) \ {except}

BlockedBy(t, i) ==
    HalfOpenOverlap(t, t + SlotMinutes,
                    appointments[i].start_time, appointments[i].end_time)

Cancelling(i) ==
    /\ i \in 1..Len(appointments)
    /\ Active(i)
    /\ ret'.op = "cancel_appointment"
    /\ ret'.args.appointment_id = i
    /\ ret'.value = TRUE

\* C5 as stated: after cancel_appointment succeeds on a non-cancelled
\* appointment, every slot of the employee's window that its interval blocked
\* is listed by get_employee_availability for that employee and date.
CancelFreesEveryBlockedSlot ==
    [][ret'.op = "cancel_appointment" => \A i \in AppointmentIds :
          Cancelling(i) =>
              \A after \in {get_employee_availability(
                                appointments[i].employee_id,
                                appointments[i].appointment_date)'} :
                  \A t \in WindowSlots(appointments[i].employee_id) :
                      BlockedBy(t, i) => Listed(t, after)]_vars

\* C5 amended: after cancel_appointment succeeds on a non-cancelled appointment
\* of employee E on a working day D of E, every slot of E's window that its
\* interval blocked and that no other non-cancelled appointment of E on D
\* overlaps is listed by get_employee_availability(E, D), and a listed slot
\* stays listed until a booking is accepted.
CancelFreesSlot ==
    [][/\ ret'.op = "cancel_appointment" => \A i \in AppointmentIds :
             (Cancelling(i) /\ WorksOn(employees[appointments[i].employee_id],
                                       appointments[i].appointment_date)) =>
                 \A after \in {get_employee_availability(
                                   appointments[i].employee_id,
                                   appointments[i].appointment_date)'} :
                     \A t \in WindowSlots(appointments[i].employee_id) :
                         (/\ BlockedBy(t, i)
                          /\ \A j \in Others(appointments[i].employee_id,
                                             appointments[i].appointment_date, i) :
                                 ~BlockedBy(t, j))
                         => Listed(t, after)
       /\ (appointments' # appointments
           /\ Len(appointments') = Len(appointments)) =>
              \A j \in 1..Len(appointments) :
                  \A before \in {get_employee_availability(
                                     appointments[j].employee_id,
                                     appointments[j].appointment_date)},
                     after \in {get_employee_availability(
                                    appointments[j].employee_id,
                                    appointments[j].appointment_date)'} :
                      \A k \in 1..Len(before) :
                          Listed(before[k].start_time, after)]_vars

\* C5 witness: a cancellation has just freed a slot that is listed again.
CancelFreedASlot ==
    /\ ret.op = "cancel_appointment"
    /\ ret.value = TRUE
    /\ ret.args.appointment_id \in 1..Len(appointments)
    /\ LET a == appointments[ret.args.appointment_id]
       IN  /\ WorksOn(employees[a.employee_id], a.appointment_date)
           /\ \E t \in WindowSlots(a.employee_id) :
                 /\ BlockedBy(t, ret.args.appointment_id)
                 /\ Listed(t, get_employee_availability(a.employee_id,
                                                        a.appointment_date))
           /\ ActiveAppointments(a.employee_id, a.appointment_date) # {}

(***************************************************************************)
(* The request of the call that has just returned, as book_appointment     *)
(* reads it: start and end as instants of the requested date.              *)
(***************************************************************************)
RequestStart(args) == strptime(args.start_time).minutes

RequestEnd(args) == RequestStart(args) + Duration(args.service_id)

Touches(s, e, appt) == e = appt.start_time \/ s = EndInstant(appt)

OverlapsAppointment(s, e, appt) ==
    HalfOpenOverlap(s, e, appt.start_time, EndInstant(appt))

TouchingSlotsListed ==
    \A j \in 1..Len(appointments) :
        \A e \in {appointments[j].employee_id},
           d \in {appointments[j].appointment_date} :
            \A slots \in {get_employee_availability(e, d)} :
                \A t \in WindowSlots(e) :
                    (/\ WorksOn(employees[e], d)
                     /\ \E i \in ActiveAppointments(e, d) :
                           Touches(t, t + SlotMinutes, appointments[i])
                     /\ \A i \in ActiveAppointments(e, d) :
                           ~OverlapsAppointment(t, t + SlotMinutes, appointments[i]))
                    => Listed(t, slots)

\* C6: an interval that only touches a non-cancelled appointment's boundary is
\* free: on a working day a slot that touches an appointment and overlaps none
\* is listed by get_employee_availability, and a book_appointment request that
\* touches an appointment and overlaps none is accepted.
TouchingIsFree ==
    [][/\ appointments' # appointments => TouchingSlotsListed'
       /\ (/\ ret'.op = "book_appointment"
           /\ ret' # ret
           /\ HasEmployee(ret'.args.employee_id)
           /\ strptime(ret'.args.start_time).ok
           /\ \E i \in ActiveAppointments(ret'.args.employee_id,
                                          ret'.args.appointment_date) :
                 Touches(RequestStart(ret'.args), RequestEnd(ret'.args),
                         appointments[i])
           /\ \A i \in ActiveAppointments(ret'.args.employee_id,
                                          ret'.args.appointment_date) :
                 ~OverlapsAppointment(RequestStart(ret'.args),
                                      RequestEnd(ret'.args), appointments[i]))
          => (ret'.error = NoError
              /\ appointments' = Append(appointments, appointments'[Len(appointments')])
              /\ appointments'[Len(appointments')].start_time = RequestStart(ret'.args))]_vars

\* C6 witness: a request that ends where an appointment starts, or starts where
\* one ends, has been accepted, and a slot touching an appointment is listed.
TouchingAccepted ==
    /\ BookAccepted
    /\ Len(appointments) >= 2
    /\ \E i \in 1..(Len(appointments) - 1) :
          /\ Active(i)
          /\ SameCalendar(i, Len(appointments))
          /\ Touches(appointments[Len(appointments)].start_time,
                     appointments[Len(appointments)].end_time, appointments[i])
    /\ \E e \in 1..Len(employees) : \E t \in WindowSlots(e) :
          /\ \E i \in ActiveAppointments(e, Today) :
                Touches(t, t + SlotMinutes, appointments[i])
          /\ Listed(t, get_employee_availability(e, Today))

\* The appointment whose tail a rejected request runs into.
RunsInto(args, appt) ==
    /\ RequestStart(args) < appt.start_time
    /\ appt.start_time < RequestEnd(args)
    /\ RequestEnd(args) <= appt.end_time

Unaligned(args) ==
    (RequestStart(args) - employees[args.employee_id].start_time) % SlotMinutes # 0

\* C7: a request whose start is not slot-aligned and lies before a
\* non-cancelled appointment, and whose end falls inside that appointment, is
\* rejected with "Time slot not available" and creates no appointment.
DurationDrivenConflict ==
    [][(/\ ret'.op = "book_appointment"
        /\ ret' # ret
        /\ HasEmployee(ret'.args.employee_id)
        /\ strptime(ret'.args.start_time).ok
        /\ Unaligned(ret'.args)
        /\ \E i \in ActiveAppointments(ret'.args.employee_id,
                                       ret'.args.appointment_date) :
              RunsInto(ret'.args, appointments[i]))
       => (ret'.error = SlotNotAvailable /\ appointments' = appointments)]_vars

\* C7 witness: the request 09:45 for 30 minutes has been rejected against an
\* appointment 10:00-10:30.
DurationDrivenRejected ==
    /\ BookFailed
    /\ ret.error = SlotNotAvailable
    /\ ret.args.start_time = T0945
    /\ Duration(ret.args.service_id) = DefaultDuration
    /\ \E i \in ActiveAppointments(ret.args.employee_id, ret.args.appointment_date) :
          /\ RunsInto(ret.args, appointments[i])
          /\ appointments[i].start_time = 600
          /\ appointments[i].end_time = 630

\* C8: every stored appointment has end_time = start_time + D minutes, D being
\* the duration of its service when service_id resolves and 30 otherwise.
EndIsStartPlusDuration ==
    \A i \in 1..Len(appointments) :
        appointments[i].end_time
            = appointments[i].start_time + Duration(appointments[i].service_id)

(***************************************************************************)
(* Working days as the claim words them: the weekday abbreviation of the   *)
(* date is one of the comma-separated tokens of working_days.              *)
(***************************************************************************)
Tokens(working_days) ==
    {split(working_days)[k] : k \in 1..Len(split(working_days))}

NonWorkingDay(e, d) == <<strftime_a(d)>> \notin Tokens(employees[e].working_days)

\* C9: for every employee and date whose weekday abbreviation is not one of
\* the comma-separated tokens of working_days, get_employee_availability
\* returns the empty list, whatever the working hours and the appointments.
NonWorkingDayHasNoSlots ==
    /\ \A e \in 1..Len(employees), d \in QueryDates :
          NonWorkingDay(e, d) => get_employee_availability(e, d) = <<>>
    /\ (/\ ret.op = "get_employee_availability"
        /\ HasEmployee(ret.args.employee_id)
        /\ NonWorkingDay(ret.args.employee_id, ret.args.date))
       => ret.value = <<>>

\* C9 witness: the empty list was returned for a non-working day on which the
\* employee's window has room for slots and an appointment is booked.
NonWorkingDayQueried ==
    /\ ret.op = "get_employee_availability"
    /\ HasEmployee(ret.args.employee_id)
    /\ NonWorkingDay(ret.args.employee_id, ret.args.date)
    /\ WindowSlots(ret.args.employee_id) # {}
    /\ ActiveAppointments(ret.args.employee_id, ret.args.date) # {}
    /\ \E t \in WindowSlots(ret.args.employee_id) :
          SlotIsAvailable(t, ret.args.employee_id, ret.args.date)
    /\ ret.value = <<>>

(***************************************************************************)
(* The 30 dates today .. today+29 and the employees a search is about.     *)
(***************************************************************************)
Horizon == {Today + k : k \in 0..29}

Targets(employee_id, shop_id) ==
    IF employee_id # NoneId THEN {employee_id}
    ELSE IF shop_id # NoneId
    THEN {e \in 1..Len(employees) :
             employees[e].shop_id = shop_id /\ employees[e].is_active}
    ELSE {}

NothingFree(employee_id, shop_id) ==
    \A e \in Targets(employee_id, shop_id), d \in Horizon :
        get_employee_availability(e, d) = <<>>

\* C10: get_next_available_slot returns None, as a normal result, exactly
\* when get_employee_availability is empty for the target employee (or every
\* active employee of the target shop) on each of the dates today .. today+29,
\* or when neither employee_id nor shop_id is given.
NoneIffHorizonExhausted ==
    /\ \A employee_id \in {NoneId} \cup EmployeeIds, shop_id \in {NoneId, 1} :
          \A r \in {get_next_available_slot(employee_id, shop_id)} :
              (~r.found) <=> NothingFree(employee_id, shop_id)
    /\ ret.op = "get_next_available_slot" =>
          (/\ ret.error = NoError
           /\ (~ret.value.found)
                  <=> NothingFree(ret.args.employee_id, ret.args.shop_id))

\* C10 witness: None was returned for an employee, and for a shop with an
\* active employee, none of whose 30 dates has a free slot.
HorizonExhausted ==
    /\ ret.op = "get_next_available_slot"
    /\ ~ret.value.found
    /\ Targets(ret.args.employee_id, ret.args.shop_id) # {}
    /\ \E e \in Targets(ret.args.employee_id, ret.args.shop_id) : HasEmployee(e)
    /\ NothingFree(ret.args.employee_id, ret.args.shop_id)
    /\ appointments # <<>>

(***************************************************************************)
(* The customer a call names, and the customer id the call resolved to     *)
(* where the call shows it: register_customer returns the record,          *)
(* book_appointment stores the id in the appointment it creates.           *)
(***************************************************************************)
CustomerCall(r) == r.op \in {"register_customer", "book_appointment"}

CallPhone(r) ==
    IF r.op = "register_customer" THEN r.args.phone ELSE r.args.customer_phone

CallName(r) ==
    IF r.op = "register_customer" THEN r.args.name ELSE r.args.customer_name

WithPhone(table, phone) == {i \in 1..Len(table) : table[i].phone = phone}

\* C11: the customer upsert is keyed by phone: a call whose phone is already
\* in the store leaves the customer table unchanged and resolves to the id of
\* the record with that phone, whatever the name; a call whose phone is not in
\* the store appends one record with the given name and phone and resolves to
\* it; no two records ever share a phone.
UpsertKeyedByPhone ==
    [][CustomerCall(ret') =>
          /\ IF WithPhone(customers, CallPhone(ret')) # {}
             THEN customers' = customers
             ELSE customers' = Append(customers, [name |-> CallName(ret'),
                                                  phone |-> CallPhone(ret')])
          /\ Cardinality(WithPhone(customers', CallPhone(ret'))) = 1
          /\ ret'.op = "register_customer" =>
                ret'.value \in WithPhone(customers', CallPhone(ret'))
          /\ (ret'.op = "book_appointment" /\ ret'.error = NoError) =>
                appointments'[Len(appointments')].customer_id
                    \in WithPhone(customers', CallPhone(ret'))]_vars

\* C11 witness: a second booking under the same phone and another spelling of
\* the name was stored under the customer id of the first, whose record kept
\* its name, while another phone has its own record.
SamePhoneSameCustomer ==
    /\ BookAccepted
    /\ Len(appointments) = 2
    /\ Len(customers) = 2
    /\ appointments[1].customer_id = appointments[2].customer_id
    /\ customers[appointments[2].customer_id].phone = ret.args.customer_phone
    /\ customers[appointments[2].customer_id].name # ret.args.customer_name

(***************************************************************************)
(* The start times get_employee_availability lists for an employee and     *)
(* date, and the result of a search as the claims word it.                 *)
(***************************************************************************)
FreeStarts(e, d) ==
    {get_employee_availability(e, d)[k].start_time :
        k \in 1..Len(get_employee_availability(e, d))}

EarliestFree(e, d, t) ==
    /\ t \in FreeStarts(e, d)
    /\ \A u \in FreeStarts(e, d) : t <= u

FirstFreeDate(e, r) ==
    /\ r.employee_id = e
    /\ r.date \in Horizon
    /\ \A d \in Today..(r.date - 1) : get_employee_availability(e, d) = <<>>
    /\ EarliestFree(e, r.date, r.time)

\* C12: when get_next_available_slot(employee_id=E) returns a result, its date
\* d is one of today .. today+29, get_employee_availability(E, d') is empty
\* for every d' from today up to the day before d, and its time is the start
\* of the earliest free slot of E on d.
StaffSearchFindsEarliest ==
    /\ \A e \in EmployeeIds, shop_id \in {NoneId, 1} :
          \A r \in {get_next_available_slot(e, shop_id)} :
              r.found => FirstFreeDate(e, r)
    /\ (/\ ret.op = "get_next_available_slot"
        /\ ret.args.employee_id # NoneId
        /\ ret.value.found)
       => FirstFreeDate(ret.args.employee_id, ret.value)

\* C12 witness: a staff-scoped search skipped today, on which the employee
\* has no slot, and returned a later date at a time after the window's start,
\* the first slot of that date being booked.
StaffSearchSkipped ==
    /\ ret.op = "get_next_available_slot"
    /\ ret.args.employee_id # NoneId
    /\ ret.value.found
    /\ ret.value.date > Today
    /\ ret.value.time > employees[ret.args.employee_id].start_time
    /\ ActiveAppointments(ret.args.employee_id, ret.value.date) # {}

ActiveOf(shop_id) ==
    {e \in 1..Len(employees) :
        employees[e].shop_id = shop_id /\ employees[e].is_active}

FirstDateMajor(shop_id, r) ==
    /\ r.employee_id \in ActiveOf(shop_id)
    /\ r.date \in Horizon
    /\ get_employee_availability(r.employee_id, r.date) # <<>>
    /\ \A d \in Today..(r.date - 1), e \in ActiveOf(shop_id) :
          get_employee_availability(e, d) = <<>>
    /\ \A e \in ActiveOf(shop_id) :
          e < r.employee_id => get_employee_availability(e, r.date) = <<>>

\* C13: when get_next_available_slot(shop_id=S) returns a result, its employee
\* is an active employee of S with a free slot on the returned date, no active
\* employee of S has a free slot on an earlier date from today on, and no
\* active employee of S earlier in store order has one on the returned date.
ShopSearchDateMajor ==
    /\ \A r \in {get_next_available_slot(NoneId, 1)} :
          r.found => FirstDateMajor(1, r)
    /\ (/\ ret.op = "get_next_available_slot"
        /\ ret.args.employee_id = NoneId
        /\ ret.args.shop_id # NoneId
        /\ ret.value.found)
       => FirstDateMajor(ret.args.shop_id, ret.value)

\* C13 witness: a shop-scoped search returned a date after today although an
\* inactive employee of the shop has a free slot today, and another active
\* employee of the shop also has a free slot on the returned date.
ShopSearchSkippedInactive ==
    /\ ret.op = "get_next_available_slot"
    /\ ret.args.employee_id = NoneId
    /\ ret.args.shop_id # NoneId
    /\ ret.value.found
    /\ ret.value.date > Today
    /\ \E e \in 1..Len(employees) :
          /\ employees[e].shop_id = ret.args.shop_id
          /\ ~employees[e].is_active
          /\ get_employee_availability(e, Today) # <<>>
    /\ \E e \in ActiveOf(ret.args.shop_id) :
          /\ e > ret.value.employee_id
          /\ get_employee_availability(e, ret.value.date) # <<>>

(***************************************************************************)
(* The appointments that block a candidate slot, as the claim words it.    *)
(***************************************************************************)
Blockers(e, d, t) ==
    {i \in 1..Len(appointments) :
        /\ appointments[i].employee_id = e
        /\ appointments[i].appointment_date = d
        /\ appointments[i].status # "cancelled"
        /\ ~(t + SlotMinutes <= appointments[i].start_time
             \/ t >= appointments[i].end_time)}

ExactSlots(e, d, slots) ==
    \A t \in WindowSlots(e) : Listed(t, slots) <=> Blockers(e, d, t) = {}

\* C14: on a working day, a candidate slot [start + 30k, start + 30(k+1))
\* inside the employee's window is listed by get_employee_availability exactly
\* when no appointment of that employee and date whose status is not
\* 'cancelled' overlaps it.
SlotAvailabilityIsExact ==
    /\ \A e \in 1..Len(employees), d \in BookDates :
          ~NonWorkingDay(e, d) =>
              ExactSlots(e, d, get_employee_availability(e, d))
    /\ (/\ ret.op = "get_employee_availability"
        /\ HasEmployee(ret.args.employee_id)
        /\ ~NonWorkingDay(ret.args.employee_id, ret.args.date))
       => ExactSlots(ret.args.employee_id, ret.args.date, ret.value)

\* C14 witness: the returned list leaves out a slot that a scheduled
\* appointment overlaps and contains a slot that only a cancelled appointment
\* overlaps.
CancelledDoesNotRemoveSlot ==
    /\ ret.op = "get_employee_availability"
    /\ HasEmployee(ret.args.employee_id)
    /\ ~NonWorkingDay(ret.args.employee_id, ret.args.date)
    /\ \E t \in WindowSlots(ret.args.employee_id) :
          /\ ~Listed(t, ret.value)
          /\ Blockers(ret.args.employee_id, ret.args.date, t) # {}
    /\ \E t \in WindowSlots(ret.args.employee_id) :
          /\ Listed(t, ret.value)
          /\ \E i \in 1..Len(appointments) :
                /\ appointments[i].employee_id = ret.args.employee_id
                /\ appointments[i].appointment_date = ret.args.date
                /\ appointments[i].status = "cancelled"
                /\ BlockedBy(t, i)

WellShaped(e, slots) ==
    /\ \A k \in 1..Len(slots) :
          /\ slots[k].end_time = slots[k].start_time + SlotMinutes
          /\ slots[k].start_time >= employees[e].start_time
          /\ (slots[k].start_time - employees[e].start_time) % SlotMinutes = 0
          /\ slots[k].end_time <= employees[e].end_time
          /\ slots[k].available = TRUE
    /\ \A k \in 1..(Len(slots) - 1) :
          slots[k].start_time < slots[k + 1].start_time

\* C15: the list get_employee_availability returns is finite and strictly
\* ascending by start time; every slot in it is exactly 30 minutes long,
\* starts at window start + 30k minutes, ends no later than the window end
\* and has available = true.
SlotListIsWellShaped ==
    /\ \A e \in 1..Len(employees), d \in BookDates :
          WellShaped(e, get_employee_availability(e, d))
    /\ (ret.op = "get_employee_availability" /\ HasEmployee(ret.args.employee_id))
       => WellShaped(ret.args.employee_id, ret.value)

\* C15 witness: a list of several slots was returned for a window whose
\* length is not a multiple of 30 minutes, with a gap where an appointment is.
RemainderYieldsNoSlot ==
    /\ ret.op = "get_employee_availability"
    /\ HasEmployee(ret.args.employee_id)
    /\ (employees[ret.args.employee_id].end_time
           - employees[ret.args.employee_id].start_time) % SlotMinutes # 0
    /\ Len(ret.value) >= 3
    /\ \E k \in 1..(Len(ret.value) - 1) :
          ret.value[k].end_time < ret.value[k + 1].start_time

\* C16: a book_appointment request whose start_time is not HH:MM is rejected
\* for its time format before any store access: the customer table is left
\* as it was and the error is the format error, whatever the employee id.
MalformedTimeRejectedFirst ==
    [][(ret'.op = "book_appointment" /\ ~strptime(ret'.args.start_time).ok)
       => (ret'.error = InvalidTimeFormat /\ customers' = customers)]_vars

StaffCall(r) ==
    \/ r.op \in {"book_appointment", "get_employee_availability"}
    \/ r.op = "get_next_available_slot" /\ r.args.employee_id # NoneId

\* C17: every operation given an employee id that does not resolve in the
\* store (book_appointment, get_employee_availability, staff-scoped
\* get_next_available_slot) fails with the staff-not-found error.
StaffNotFoundSurfaced ==
    (StaffCall(ret) /\ ~HasEmployee(ret.args.employee_id))
    => ret.error = EmployeeNotFound

(***************************************************************************)
(* The EmployeeSchedule rows of an employee and date, and the list the     *)
(* rows' hours would give.                                                 *)
(***************************************************************************)
Overrides(e, d) ==
    {k \in 1..Len(schedules) :
        schedules[k].employee_id = e /\ schedules[k].date = d}

OverrideSlots(e, d, k) ==
    IF schedules[k].is_available
    THEN TimeSlots(schedules[k].start_time, schedules[k].end_time, e, d)
    ELSE <<>>

\* C18: when an EmployeeSchedule row exists for an employee and date,
\* get_employee_availability uses the row's window for that date: the slots
\* of its start/end times, or none when its is_available is false.
OverrideTakesPrecedence ==
    (ret.op = "get_employee_availability" /\ HasEmployee(ret.args.employee_id))
    => \A k \in Overrides(ret.args.employee_id, ret.args.date) :
           ret.value = OverrideSlots(ret.args.employee_id, ret.args.date, k)

(***************************************************************************)
(* The statuses that occupy a slot, and the appointments of a calendar     *)
(* that have one of them.                                                  *)
(***************************************************************************)
BlockingStatuses == {"scheduled", "completed", "no-show"}

Occupying(e, d) ==
    {i \in 1..Len(appointments) :
        /\ appointments[i].employee_id = e
        /\ appointments[i].appointment_date = d
        /\ appointments[i].status \in BlockingStatuses}

CancelledOn(e, d) ==
    {i \in 1..Len(appointments) :
        /\ appointments[i].employee_id = e
        /\ appointments[i].appointment_date = d
        /\ appointments[i].status = "cancelled"}

SlotsRespectStatus ==
    \A e \in 1..Len(employees) :
        ~NonWorkingDay(e, Today) =>
            \A slots \in {get_employee_availability(e, Today)} :
                \A t \in WindowSlots(e) :
                    Listed(t, slots) <=> \A i \in Occupying(e, Today) : ~BlockedBy(t, i)

\* C19: an appointment with status 'scheduled', 'completed' or 'no-show'
\* blocks slot generation and booking for its interval, and a 'cancelled' one
\* blocks neither: a slot is listed exactly when no appointment with one of
\* the three statuses overlaps it; a request that starts within the interval
\* of such an appointment is rejected; a request for exactly the interval of
\* a cancelled appointment that no such appointment overlaps is accepted.
OnlyCancelledIsNonBlocking ==
    [][/\ SlotsRespectStatus'
       /\ (/\ ret'.op = "book_appointment"
           /\ HasEmployee(ret'.args.employee_id)
           /\ strptime(ret'.args.start_time).ok)
          => /\ (\E i \in Occupying(ret'.args.employee_id,
                                     ret'.args.appointment_date) :
                    /\ appointments[i].start_time <= RequestStart(ret'.args)
                    /\ RequestStart(ret'.args) < appointments[i].end_time)
                => (ret'.error = SlotNotAvailable /\ appointments' = appointments)
             /\ (/\ \E i \in CancelledOn(ret'.args.employee_id,
                                          ret'.args.appointment_date) :
                       /\ appointments[i].start_time = RequestStart(ret'.args)
                       /\ appointments[i].end_time = RequestEnd(ret'.args)
                 /\ \A i \in Occupying(ret'.args.employee_id,
                                        ret'.args.appointment_date) :
                       ~OverlapsAppointment(RequestStart(ret'.args),
                                            RequestEnd(ret'.args), appointments[i]))
                => (ret'.error = NoError
                    /\ Len(appointments') = Len(appointments) + 1)]_vars

\* C19 witness: a request for exactly the interval of a completed or no-show
\* appointment has been rejected and its slot is not listed, while the slot of
\* a cancelled appointment of the same day is listed.
CompletedStillBlocks ==
    /\ BookFailed
    /\ ret.error = SlotNotAvailable
    /\ \E i \in 1..Len(appointments) :
          /\ appointments[i].status \in {"completed", "no-show"}
          /\ appointments[i].start_time = RequestStart(ret.args)
          /\ appointments[i].end_time = RequestEnd(ret.args)
          /\ ~Listed(appointments[i].start_time,
                     get_employee_availability(ret.args.employee_id, Today))
    /\ \E j \in CancelledOn(ret.args.employee_id, Today) :
          Listed(appointments[j].start_time,
                 get_employee_availability(ret.args.employee_id, Today))

TerminalStatuses == {"completed", "cancelled", "no-show"}

\* C20: every appointment is created with status 'scheduled'; a status changes
\* only from 'scheduled' to 'completed', 'cancelled' or 'no-show'; an
\* appointment in one of these three statuses never changes status again,
\* and no appointment is deleted.
LifecycleIsTerminal ==
    [][/\ Len(appointments') >= Len(appointments)
       /\ \A i \in 1..Len(appointments') :
             IF i > Len(appointments)
             THEN appointments'[i].status = "scheduled"
             ELSE appointments'[i].status # appointments[i].status =>
                      /\ appointments[i].status = "scheduled"
                      /\ appointments'[i].status \in TerminalStatuses]_vars

(***************************************************************************)
(* Stores in which every booking had the same duration and none crosses    *)
(* midnight.                                                               *)
(***************************************************************************)
Span(i) == appointments[i].end_time - appointments[i].start_time

UniformDurations ==
    \A i, j \in 1..Len(appointments) : Span(i) = Span(j) /\ Span(i) > 0

OffGrid(i) ==
    (appointments[i].start_time
       - employees[appointments[i].employee_id].start_time) % SlotMinutes # 0

\* C21: when every appointment in the store was booked with the same duration
\* and none crosses midnight, the non-cancelled appointments of one employee
\* and date are pairwise non-overlapping, whether or not their start times lie
\* on the 30-minute grid.
UniformDurationsNeverOverlap ==
    UniformDurations =>
        \A i, j \in 1..Len(appointments) :
            (i # j /\ Active(i) /\ Active(j) /\ SameCalendar(i, j))
            => (\/ appointments[i].end_time <= appointments[j].start_time
                \/ appointments[j].end_time <= appointments[i].start_time)

\* C21 witness: two non-cancelled appointments of the same duration share a
\* calendar, one of them off the slot grid, after a request overlapping one of
\* them was rejected.
UniformOffGridPair ==
    /\ UniformDurations
    /\ Len(appointments) = 2
    /\ Active(1) /\ Active(2) /\ SameCalendar(1, 2)
    /\ OffGrid(1) \/ OffGrid(2)
    /\ BookFailed
    /\ ret.error = SlotNotAvailable
    /\ \E i \in 1..2 :
          HalfOpenOverlap(RequestStart(ret.args), RequestEnd(ret.args),
                          appointments[i].start_time, appointments[i].end_time)

\* C22: every stored appointment has start_time < end_time, also when the
\* start plus the duration passes midnight.
EndAfterStart ==
    \A i \in 1..Len(appointments) :
        appointments[i].start_time < appointments[i].end_time

\* C23: every appointment book_appointment accepted lies inside the
\* employee's working calendar: the weekday of its date is one of the
\* employee's working_days and its interval lies within the working hours.
InsideWorkingCalendar ==
    \A i \in 1..Len(appointments) :
        /\ ~NonWorkingDay(appointments[i].employee_id,
                          appointments[i].appointment_date)
        /\ employees[appointments[i].employee_id].start_time
              <= appointments[i].start_time
        /\ appointments[i].end_time
              <= employees[appointments[i].employee_id].end_time

(***************************************************************************)
(* A request for a slot that is on offer in the state it is made in.       *)
(***************************************************************************)
OnOffer(args) ==
    /\ HasEmployee(args.employee_id)
    /\ strptime(args.start_time).ok
    /\ args.service_id = NoneId
    /\ \/ Listed(RequestStart(args),
                 get_employee_availability(args.employee_id, args.appointment_date))
       \/ \E r \in {get_next_available_slot(args.employee_id, NoneId)} :
              /\ r.found
              /\ r.date = args.appointment_date
              /\ r.time = RequestStart(args)

\* C24: a book_appointment request with no service for a slot that
\* get_employee_availability lists for the employee and date, or that
\* get_next_available_slot returns for the employee, made before any other
\* booking or cancellation, is accepted and stored as that 30-minute slot.
OfferedSlotIsBookable ==
    [][(ret'.op = "book_appointment" /\ OnOffer(ret'.args))
       => /\ ret'.error = NoError
          /\ Len(appointments') = Len(appointments) + 1
          /\ appointments'[Len(appointments')].start_time = RequestStart(ret'.args)
          /\ appointments'[Len(appointments')].end_time
                = RequestStart(ret'.args) + SlotMinutes]_vars

\* C24 witness: a slot of the employee's grid was booked on a working day next
\* to a non-cancelled appointment that is off the grid or longer than a slot.
OfferedSlotBooked ==
    /\ BookAccepted
    /\ ret.args.service_id = NoneId
    /\ Len(appointments) = 2
    /\ ret.value = 2
    /\ ~NonWorkingDay(ret.args.employee_id, ret.args.appointment_date)
    /\ appointments[2].start_time \in WindowSlots(ret.args.employee_id)
    /\ Active(1) /\ SameCalendar(1, 2)
    /\ OffGrid(1) \/ Span(1) # SlotMinutes
    /\ Touches(appointments[2].start_time, appointments[2].end_time, appointments[1])

\* C25: at most one customer record exists per phone number in every
\* reachable state, also when the existence checks and inserts of calls with
\* the same new phone number interleave.
OneCustomerPerPhone ==
    \A i, j \in 1..Len(customers) :
        i # j => customers[i].phone # customers[j].phone

\* C25 witness: the insert of a call that had found no customer with its
\* phone failed on the unique constraint, another call having stored that
\* phone in between; the phone has exactly one record.
SecondInsertFailed ==
    /\ ret.op = "register_customer"
    /\ ret.error = IntegrityError
    /\ Cardinality(WithPhone(customers, ret.args.phone)) = 1

====
